---- MODULE Spec2Model ----
(***************************************************************************)
(* The daily delivery pipeline of the LeetCode email agent: the SQLite     *)
(* ledger (users, problems, sent_problems), the coordinator's batch        *)
(* (process_daily_emails / _process_user_email) and the scheduler that     *)
(* drives it.  A batch is a sequence of steps, one per store transaction   *)
(* or external call, so that batches running in different threads or       *)
(* processes interleave exactly where the code lets them.                  *)
(***************************************************************************)
EXTENDS Integers, Sequences, FiniteSets, Bags, TLC

\* ---------------------------------------------------------------- bounds
MaxRuns == 2          \* batches started in one behaviour
MaxProblems == 4      \* rows the problems table may grow to
MaxUsers == 1         \* rows add_user may grow the users table to
MaxSubscribers == 3   \* rows the subscription form may grow the users table to

\* ------------------------------------------------------- program constants
max_instances_two == 1 + 1
\* add_job(..., max_instances=1)
max_instances == 1

SUPPORTED_LANGUAGES == {"python", "java", "cpp", "javascript", "go", "rust"}
DIFFICULTY_LEVELS == {"easy", "medium", "hard"}

\* ------------------------------------------------------------- the inputs
\* Addresses offered to add_user / remove_user; HasAt is `"@" in email`.
EmailInputs == {"a@x.io", "b@x.io", "nomail"}
HasAt(email) == email \in {"a@x.io", "b@x.io", "c@x.io"}
LanguageInputs == {"python", "cobol"}
DifficultyInputs == {"easy", "hard"}

\* data/problems.json as the FetchAgent loads it: two easy problems, one
\* medium, none hard.
problems_file ==
    << [title |-> "Two Sum", difficulty |-> "easy"],
       [title |-> "Valid Parentheses", difficulty |-> "easy"],
       [title |-> "Add Two Numbers", difficulty |-> "medium"] >>

None == 0

VARIABLES
    users,            \* table users: row id -> row (ids are 1..Len)
    problems,         \* table problems: row id -> row
    sent_problems,    \* table sent_problems: a bag of rows
    runs,             \* the batches: run number -> its frame
    outbox,           \* history: the mails the delivery collaborator accepted
    is_running,       \* DailyScheduler.is_running
    last_run_result,  \* DailyScheduler.last_run_result
    missing_fields,   \* the required fields of Config that are empty
    refused,          \* history: the commands and forms that reported a failure
    health,           \* the health report last shown: << >> or << report >>
    jobs,             \* the jobs in the scheduler's job store
    stats             \* the get_user_stats call under way or last returned

vars == << users, problems, sent_problems, runs, outbox, is_running,
           last_run_result, missing_fields, refused, health, jobs, stats >>

\* ------------------------------------------------------------ small helpers
RECURSIVE SeqFilter(_, _)
\* The rows of a sequence of ids that satisfy keep, in order.
SeqFilter(s, keep) ==
    IF s = << >> THEN << >>
    ELSE IF Head(s) \in keep THEN << Head(s) >> \o SeqFilter(Tail(s), keep)
    ELSE SeqFilter(Tail(s), keep)

Range(s) == {s[k] : k \in 1..Len(s)}

RECURSIVE Iota(_)
Iota(n) == IF n = 0 THEN << >> ELSE Append(Iota(n - 1), n)

RECURSIVE BagSum(_, _)
\* Number of copies, over the rows of set S, in bag B.
BagSum(B, S) ==
    IF S = {} THEN 0
    ELSE LET r == CHOOSE x \in S : TRUE
         IN CopiesIn(r, B) + BagSum(B, S \ {r})

\* ----------------------------------------------------- the store (db_manager)
\* SELECT * FROM users WHERE email = ?  (email is UNIQUE): the row id or None.
get_user_by_email(email) ==
    IF \E i \in 1..Len(users) : users[i].email = email
    THEN CHOOSE i \in 1..Len(users) : users[i].email = email
    ELSE None

\* INSERT INTO users: the table after the insert; an IntegrityError (the
\* address is already there) leaves it as it was.
db_add_user(tbl, email, language, difficulty) ==
    IF \E i \in 1..Len(tbl) : tbl[i].email = email
    THEN tbl
    ELSE Append(tbl, [email |-> email, preferred_language |-> language,
                      preferred_difficulty |-> difficulty, is_active |-> TRUE])

\* The update with is_active = 1 in its SET clause.
db_update_user_preferences_reactivates(tbl, email, language, difficulty) ==
    [i \in 1..Len(tbl) |->
        IF tbl[i].email = email
        THEN [tbl[i] EXCEPT
                !.preferred_language =
                    IF language # "" THEN language ELSE @,
                !.preferred_difficulty =
                    IF difficulty # "" THEN difficulty ELSE @,
                !.is_active = TRUE]
        ELSE tbl[i]]

\* UPDATE users SET preferred_language = ?, preferred_difficulty = ? WHERE email = ?
\* A preference that is None or empty ("" here) is not part of the update.
db_update_user_preferences(tbl, email, language, difficulty) ==
    [i \in 1..Len(tbl) |->
        IF tbl[i].email = email
        THEN [tbl[i] EXCEPT
                !.preferred_language =
                    IF language # "" THEN language ELSE @,
                !.preferred_difficulty =
                    IF difficulty # "" THEN difficulty ELSE @]
        ELSE tbl[i]]

\* DELETE FROM users WHERE email = ?
deactivate_user_delete(tbl, email) ==
    LET kept == SeqFilter(Iota(Len(tbl)), {i \in 1..Len(tbl) : tbl[i].email # email})
    IN [k \in 1..Len(kept) |-> tbl[kept[k]]]

\* UPDATE users SET is_active = 0 WHERE email = ?
deactivate_user(tbl, email) ==
    [i \in 1..Len(tbl) |->
        IF tbl[i].email = email THEN [tbl[i] EXCEPT !.is_active = FALSE]
        ELSE tbl[i]]

\* The query without WHERE is_active = 1: every row of the table.
get_active_users_all(tbl) ==
    [k \in 1..Len(tbl) |->
            [id |-> k,
             preferred_language |-> tbl[k].preferred_language,
             preferred_difficulty |-> tbl[k].preferred_difficulty]]

\* SELECT * FROM users WHERE is_active = 1, in rowid order; each element is
\* the User object the batch keeps (id and preferences as read now).
get_active_users(tbl) ==
    LET ids == SeqFilter(Iota(Len(tbl)), {i \in 1..Len(tbl) : tbl[i].is_active})
    IN [k \in 1..Len(ids) |->
            [id |-> ids[k],
             preferred_language |-> tbl[ids[k]].preferred_language,
             preferred_difficulty |-> tbl[ids[k]].preferred_difficulty]]

\* add_problem that returns the problem without inserting it.
add_problem_not_stored(tbl, problem) == tbl

\* INSERT INTO problems: title is not unique, every insert is a new row.
add_problem(tbl, problem) == Append(tbl, problem)

\* The rows of sent_problems for one (user_id, problem_id) pair.
PairRows(sp, user_id, problem_id) ==
    {r \in BagToSet(sp) : r.user_id = user_id /\ r.problem_id = problem_id}

\* The query without its NOT IN clause: any problem of the difficulty.
get_unsent_problem_for_user_any(ptbl, sp, user_id, difficulty) ==
    {p \in 1..Len(ptbl) : ptbl[p].difficulty = difficulty}

\* The subquery with AND sp.email_status = 'sent': a failed delivery does not
\* take the problem out of the candidates.
get_unsent_problem_for_user_sent_only(ptbl, sp, user_id, difficulty) ==
    {p \in 1..Len(ptbl) :
        /\ ptbl[p].difficulty = difficulty
        /\ ~ \E r \in BagToSet(sp) :
                r.user_id = user_id /\ r.problem_id = p /\ r.email_status = "sent"}

\* The query without p.difficulty = ?: any problem the user has no row for.
get_unsent_problem_for_user_any_difficulty(ptbl, sp, user_id, difficulty) ==
    {p \in 1..Len(ptbl) :
        ~ \E r \in BagToSet(sp) : r.user_id = user_id /\ r.problem_id = p}

\* The candidates of
\*   SELECT p.* FROM problems p WHERE p.difficulty = ? AND p.id NOT IN
\*     (SELECT sp.problem_id FROM sent_problems sp WHERE sp.user_id = ?)
\* ORDER BY RANDOM() LIMIT 1 picks any one of them; none gives None.
get_unsent_problem_for_user(ptbl, sp, user_id, difficulty) ==
    {p \in 1..Len(ptbl) :
        /\ ptbl[p].difficulty = difficulty
        /\ ~ \E r \in BagToSet(sp) : r.user_id = user_id /\ r.problem_id = p}

\* INSERT without the conflict clause and without UNIQUE(user_id, problem_id).
mark_problem_sent_plain_insert(sp, user_id, problem_id, solution_language, email_status) ==
    sp (+) SetToBag({[user_id |-> user_id, problem_id |-> problem_id,
                      solution_language |-> solution_language,
                      email_status |-> email_status]})

\* INSERT OR IGNORE: a pair that has a row keeps it as it is.
mark_problem_sent_insert_or_ignore(sp, user_id, problem_id, solution_language, email_status) ==
    IF PairRows(sp, user_id, problem_id) # {} THEN sp
    ELSE sp (+) SetToBag({[user_id |-> user_id, problem_id |-> problem_id,
                           solution_language |-> solution_language,
                           email_status |-> email_status]})

\* INSERT OR REPLACE INTO sent_problems under UNIQUE(user_id, problem_id):
\* the rows that conflict on the pair are deleted, then the new row is added.
mark_problem_sent(sp, user_id, problem_id, solution_language, email_status) ==
    LET old == PairRows(sp, user_id, problem_id)
        kept == [r \in (BagToSet(sp) \ old) |-> sp[r]]
    IN kept (+) SetToBag({[user_id |-> user_id, problem_id |-> problem_id,
                           solution_language |-> solution_language,
                           email_status |-> email_status]})

\* ------------------------------------------------------------- fetch agent
\* FetchAgent.get_problem_by_difficulty: the first problem of the file with
\* that difficulty (its place in the file), or None.
get_problem_by_difficulty(difficulty) ==
    LET idx == {k \in 1..Len(problems_file) : problems_file[k].difficulty = difficulty}
    IN IF idx = {} THEN None
       ELSE CHOOSE k \in idx : \A j \in idx : k <= j

\* ------------------------------------------------------------- solve agent
\* A text is the sequence of its lines; a line is one of the section headers
\* the parser looks for, a code fence ("fence"), some other text, or empty.
RECURSIVE Strip(_)
\* str.strip() of the joined lines: no empty line at either end.
Strip(lines) ==
    IF lines = << >> THEN << >>
    ELSE IF Head(lines) = "" THEN Strip(Tail(lines))
    ELSE IF lines[Len(lines)] = "" THEN Strip(SubSeq(lines, 1, Len(lines) - 1))
    ELSE lines

\* _extract_code_block: what stands between the first code fence and the
\* next fence at least one line further down, stripped; "" without them.
_extract_code_block(lines) ==
    LET opens == {i \in 1..Len(lines) :
                    /\ lines[i] = "fence"
                    /\ \E j \in (i + 2)..Len(lines) : lines[j] = "fence"}
    IN IF opens = {} THEN << >>
       ELSE LET i == CHOOSE x \in opens : \A y \in opens : x <= y
                closes == {j \in (i + 2)..Len(lines) : lines[j] = "fence"}
                j == CHOOSE x \in closes : \A y \in closes : x <= y
            IN Strip(SubSeq(lines, i + 1, j - 1))

\* The section a header line opens, and the section that must be the
\* current one for its content to be kept when that header is met.
SectionOf(line) ==
    CASE line = "solution:" -> "code"
      [] line = "explanation:" -> "explanation"
      [] line = "time complexity:" -> "time_complexity"
      [] line = "space complexity:" -> "space_complexity"
      [] line = "approach:" -> "approach"
      [] OTHER -> "none"

SectionBefore(section) ==
    CASE section = "explanation" -> "code"
      [] section = "time_complexity" -> "explanation"
      [] section = "space_complexity" -> "time_complexity"
      [] section = "approach" -> "space_complexity"
      [] OTHER -> "none"

\* result[section] = the content collected for it.
StoreSection(result, section, content) ==
    IF section = "code"
    THEN [result EXCEPT !.code = _extract_code_block(content)]
    ELSE [result EXCEPT ![section] = Strip(content)]

RECURSIVE ParseLines(_, _, _, _)
\* The loop of _parse_solution_response over the lines, then "Handle the
\* last section".
ParseLines(lines, current_section, current_content, result) ==
    IF lines = << >>
    THEN IF current_section = "none" THEN result
         ELSE StoreSection(result, current_section, current_content)
    ELSE LET section == SectionOf(Head(lines))
         IN IF section # "none"
            THEN ParseLines(Tail(lines), section, << >>,
                     IF section # "code" /\ current_section = SectionBefore(section)
                     THEN StoreSection(result, current_section, current_content)
                     ELSE result)
            ELSE ParseLines(Tail(lines), current_section,
                     IF current_section # "none"
                     THEN Append(current_content, Head(lines))
                     ELSE current_content,
                     result)

\* _parse_solution_response: the sections, then the two fallbacks.
_parse_solution_response(content) ==
    LET empty == [code |-> << >>, explanation |-> << >>, time_complexity |-> << >>,
                  space_complexity |-> << >>, approach |-> << >>]
        parsed == ParseLines(content, "none", << >>, empty)
        coded == IF parsed.code = << >>
                 THEN [parsed EXCEPT !.code = _extract_code_block(content)]
                 ELSE parsed
    IN IF coded.explanation = << >>
       THEN [coded EXCEPT !.explanation = Strip(content)]
       ELSE coded

\* What the chat completion call gives: an exception, a response without
\* choices, a message without content, or a content.
ApiError == [kind |-> "api_error", content |-> << >>]
NoChoices == [kind |-> "no_choices", content |-> << >>]
NullContent == [kind |-> "null_content", content |-> << >>]
Content(lines) == [kind |-> "content", content |-> lines]

EmptyContent == Content(<< "" >>)
ProseContent == Content(<< "text" >>)
SectionedContent ==
    Content(<< "solution:", "fence", "text", "fence", "explanation:", "text",
               "time complexity:", "text", "space complexity:", "text",
               "approach:", "text" >>)

ResponseInputs ==
    {ApiError, NoChoices, NullContent, EmptyContent, ProseContent, SectionedContent}

\* generate_solution returning None on every content as well.
generate_solution_requires_sections(response) ==
    << >>

\* generate_solution after the call: << >> is None, << s >> the Solution.
\* An exception of the call, no choices, and a content that is not a string
\* (split and strip raise) give None; every string gives a Solution.
generate_solution(response) ==
    IF response.kind # "content" THEN << >>
    ELSE LET solution_data == _parse_solution_response(response.content)
         IN << [solution_code |-> solution_data.code,
                explanation |-> solution_data.explanation,
                time_complexity |-> solution_data.time_complexity,
                space_complexity |-> solution_data.space_complexity,
                humor_comments |-> << >>] >>

\* ------------------------------------------------------------- humor agent
\* What the helpers of add_humor_to_solution do: one of them raises before
\* any comment is there, or _generate_humor_comments draws
\* random.randint(2, 4) comments.
HumorInputs ==
    {[raises |-> TRUE, num_comments |-> 0]} \cup [raises : {FALSE}, num_comments : 2..4]

\* _generate_humor_comments: num_comments lines, each one a comment.
_generate_humor_comments(num_comments) == [k \in 1..num_comments |-> "comment"]

\* _inject_humor_into_code on code without definitions, returns or loops:
\* the first comment and an empty line, the code, an empty line and the
\* remaining comments.
_inject_humor_into_code(code, humor_comments) ==
    IF humor_comments = << >> THEN code
    ELSE << Head(humor_comments), "" >> \o code \o << "" >> \o Tail(humor_comments)

\* add_humor_to_solution losing the code when a helper raises.
add_humor_to_solution_loses_code(solution, humor) ==
    IF solution.solution_code = << >> THEN solution
    ELSE IF humor.raises THEN [solution EXCEPT !.solution_code = << >>]
    ELSE LET humor_comments == _generate_humor_comments(humor.num_comments)
         IN [solution EXCEPT
                !.solution_code = _inject_humor_into_code(@, humor_comments),
                !.humor_comments = humor_comments]

\* add_humor_to_solution: the solution as it is when it has no code or when
\* a helper raises (the except branch returns it), else the solution with
\* the comments injected in its code and kept in humor_comments.
add_humor_to_solution(solution, humor) ==
    IF solution.solution_code = << >> THEN solution
    ELSE IF humor.raises THEN solution
    ELSE LET humor_comments == _generate_humor_comments(humor.num_comments)
         IN [solution EXCEPT
                !.solution_code = _inject_humor_into_code(@, humor_comments),
                !.humor_comments = humor_comments]

\* ------------------------------------------------------------- coordinator
\* A batch that has not started.
IdleRun ==
    [kind |-> "none", pc |-> "idle", active_users |-> << >>, i |-> 0,
     problem |-> None, solution |-> << >>, email_sent |-> FALSE,
     total_users |-> 0, emails_sent |-> 0, emails_failed |-> 0, errors |-> << >>,
     end_time |-> << >>, log |-> << >>]

InFlight(r) == runs[r].pc \in {"select", "fetch", "generate", "deliver", "record"}

\* The user the batch is processing.
CurrentUser(r) == runs[r].active_users[runs[r].i]

\* A failure ends the loop: the users after the failed one are never reached.
AfterUser_abort_on_failure(f, success, outcome) ==
    [f EXCEPT
        !.emails_sent = IF success THEN @ + 1 ELSE @,
        !.emails_failed = IF success THEN @ ELSE @ + 1,
        !.log = Append(@, [user_id |-> f.active_users[f.i].id,
                           problem |-> f.problem, outcome |-> outcome]),
        !.problem = None,
        !.solution = << >>,
        !.email_sent = FALSE,
        !.i = IF f.i < Len(f.active_users) /\ success THEN f.i + 1 ELSE f.i,
        !.pc = IF f.i < Len(f.active_users) /\ success THEN "select" ELSE "done",
        !.end_time = IF f.i < Len(f.active_users) /\ success THEN @ ELSE << "now" >>]

\* The loop body that does not count the subscribers that failed.
AfterUser_failure_not_counted(f, success, outcome) ==
    [f EXCEPT
        !.emails_sent = IF success THEN @ + 1 ELSE @,
        !.log = Append(@, [user_id |-> f.active_users[f.i].id,
                           problem |-> f.problem, outcome |-> outcome]),
        !.problem = None,
        !.solution = << >>,
        !.email_sent = FALSE,
        !.i = IF f.i < Len(f.active_users) THEN f.i + 1 ELSE f.i,
        !.pc = IF f.i < Len(f.active_users) THEN "select" ELSE "done",
        !.end_time = IF f.i < Len(f.active_users) THEN @ ELSE << "now" >>]

\* process_daily_emails, the loop body after _process_user_email returned
\* `success`: count it, go on with the next user, return after the last one.
\* _process_user_email catches every exception and returns False, so the
\* `except` of the loop is never entered and nothing is appended to errors.
AfterUser(f, success, outcome) ==
    [f EXCEPT
        !.emails_sent = IF success THEN @ + 1 ELSE @,
        !.emails_failed = IF success THEN @ ELSE @ + 1,
        !.log = Append(@, [user_id |-> f.active_users[f.i].id,
                           problem |-> f.problem, outcome |-> outcome]),
        !.problem = None,
        !.solution = << >>,
        !.email_sent = FALSE,
        !.i = IF f.i < Len(f.active_users) THEN f.i + 1 ELSE f.i,
        !.pc = IF f.i < Len(f.active_users) THEN "select" ELSE "done",
        !.end_time = IF f.i < Len(f.active_users) THEN @ ELSE << "now" >>]

\* last_run_result before any job has run.
NoResult == [run |-> None, job_status |-> "none", error |-> ""]

\* A wrapper that stores the result only for the jobs the cron trigger fired.
ResultAfter_cron_only(r, f) ==
    IF f.pc = "done" /\ f.kind = "cron"
    THEN [run |-> r, job_status |-> "completed", error |-> ""]
    ELSE last_run_result

\* _run_daily_job stores the result of the job it wrapped, with job_status
\* completed; a batch called directly on the coordinator has no wrapper.
ResultAfter(r, f) ==
    IF f.pc = "done" /\ f.kind \in {"cron", "run_now"}
    THEN [run |-> r, job_status |-> "completed", error |-> ""]
    ELSE last_run_result

\* process_daily_emails up to the loop: read the active users once, set
\* total_users, and return with end_time set when there is none.
Begin(r, kind) ==
    /\ runs[r].pc = "idle"
    /\ \A q \in 1..(r - 1) : runs[q].pc # "idle"
    /\ LET au == get_active_users(users)
           f == [IdleRun EXCEPT !.kind = kind, !.active_users = au,
                                !.total_users = Len(au),
                                !.end_time = IF au = << >> THEN << "now" >> ELSE << >>,
                                !.i = IF au = << >> THEN 0 ELSE 1,
                                !.pc = IF au = << >> THEN "done" ELSE "select"]
       IN /\ runs' = [runs EXCEPT ![r] = f]
          /\ last_run_result' = ResultAfter(r, f)
    /\ UNCHANGED << users, problems, sent_problems, outbox, is_running, missing_fields, refused, health, jobs, stats >>

\* Step 1 handing the problem straight to the delivery, without generation.
SelectItem_skips_generation(r) ==
    /\ runs[r].pc = "select"
    /\ LET u == CurrentUser(r)
           cands == get_unsent_problem_for_user(problems, sent_problems, u.id,
                                                u.preferred_difficulty)
       IN IF cands = {}
          THEN runs' = [runs EXCEPT ![r].pc = "fetch"]
          ELSE \E p \in cands :
                  runs' = [runs EXCEPT ![r].problem = p, ![r].pc = "deliver"]
    /\ UNCHANGED << users, problems, sent_problems, outbox, is_running,
                    last_run_result, missing_fields, refused, health, jobs, stats >>

\* _process_user_email step 1: get_unsent_problem_for_user.
SelectItem(r) ==
    /\ runs[r].pc = "select"
    /\ LET u == CurrentUser(r)
           cands == get_unsent_problem_for_user(problems, sent_problems, u.id,
                                                u.preferred_difficulty)
       IN IF cands = {}
          THEN runs' = [runs EXCEPT ![r].pc = "fetch"]
          ELSE \E p \in cands :
                  runs' = [runs EXCEPT ![r].problem = p, ![r].pc = "generate"]
    /\ UNCHANGED << users, problems, sent_problems, outbox, is_running, last_run_result, missing_fields, refused, health, jobs, stats >>

\* _get_and_store_new_problem: nothing unsent in the store, so ask the fetch
\* agent and store what it returns as a new row.
GetAndStoreNewProblem(r) ==
    /\ runs[r].pc = "fetch"
    /\ LET u == CurrentUser(r)
           fetched == get_problem_by_difficulty(u.preferred_difficulty)
       IN IF fetched = None
          THEN /\ runs' = [runs EXCEPT ![r] = AfterUser(@, FALSE, "no_item")]
               /\ last_run_result' = ResultAfter(r, runs'[r])
               /\ UNCHANGED problems
          ELSE /\ Len(problems) < MaxProblems
               /\ problems' = add_problem(problems, problems_file[fetched])
               /\ runs' = [runs EXCEPT ![r].problem = Len(problems) + 1,
                                       ![r].pc = "generate"]
               /\ UNCHANGED last_run_result
    /\ UNCHANGED << users, sent_problems, outbox, is_running, missing_fields, refused, health, jobs, stats >>

\* What the generation API can answer: without the key no call succeeds.
Responses ==
    IF "GROQ_API_KEY" \in missing_fields THEN {ApiError} ELSE ResponseInputs

\* The step that writes a failed record when generation fails.
GenerateSolutionWith_records_failure(r, response) ==
    /\ runs[r].pc = "generate"
    /\ LET solution == generate_solution(response)
       IN IF solution = << >>
          THEN /\ runs' = [runs EXCEPT ![r] = AfterUser(@, FALSE, "generate_failed")]
               /\ sent_problems' = mark_problem_sent(sent_problems, CurrentUser(r).id,
                                        runs[r].problem,
                                        CurrentUser(r).preferred_language, "failed")
          ELSE /\ runs' = [runs EXCEPT ![r].solution = solution, ![r].pc = "deliver"]
               /\ UNCHANGED sent_problems
    /\ last_run_result' = ResultAfter(r, runs'[r])
    /\ UNCHANGED << users, problems, outbox, is_running, missing_fields, refused, health, jobs, stats >>

\* Step 2 and 3 with the API answering `response` and the humor helpers
\* doing `humor`: generate_solution, return False if it gave None; else
\* add_humor_to_solution, whose result is handed to the delivery.
GenerateSolutionHumor(r, response, humor) ==
    /\ runs[r].pc = "generate"
    /\ LET solution == generate_solution(response)
       IN IF solution = << >>
          THEN runs' = [runs EXCEPT ![r] = AfterUser(@, FALSE, "generate_failed")]
          ELSE LET enhanced_solution == add_humor_to_solution(solution[1], humor)
               IN runs' = [runs EXCEPT ![r].solution = << enhanced_solution >>,
                                       ![r].pc = "deliver"]
    /\ last_run_result' = ResultAfter(r, runs'[r])
    /\ UNCHANGED << users, problems, sent_problems, outbox, is_running, missing_fields, refused, health, jobs, stats >>

GenerateSolutionWith(r, response) ==
    \E humor \in HumorInputs : GenerateSolutionHumor(r, response, humor)

GenerateSolution(r) == \E response \in Responses : GenerateSolutionWith(r, response)

\* What the mail server can answer: without the address or the password no
\* mail is accepted.
Deliveries ==
    IF missing_fields \cap {"EMAIL_ADDRESS", "EMAIL_PASSWORD"} # {} THEN {FALSE}
    ELSE BOOLEAN

\* Step 4: send_daily_problem; a mail that was accepted is out for good.
SendDailyProblem(r) ==
    /\ runs[r].pc = "deliver"
    /\ \E email_sent \in Deliveries :
          /\ runs' = [runs EXCEPT ![r].email_sent = email_sent,
                                  ![r].solution = << >>, ![r].pc = "record"]
          /\ outbox' = IF email_sent
                       THEN outbox \cup {[run |-> r, user_id |-> CurrentUser(r).id,
                                          problem_id |-> runs[r].problem]}
                       ELSE outbox
    /\ UNCHANGED << users, problems, sent_problems, is_running, last_run_result, missing_fields, refused, health, jobs, stats >>

\* Step 5: mark_problem_sent with "sent" or "failed", then return.
MarkProblemSent(r) ==
    /\ runs[r].pc = "record"
    /\ LET u == CurrentUser(r)
           status == IF runs[r].email_sent THEN "sent" ELSE "failed"
       IN /\ sent_problems' = mark_problem_sent(sent_problems, u.id, runs[r].problem,
                                                u.preferred_language, status)
          /\ runs' = [runs EXCEPT ![r] = AfterUser(@, runs[r].email_sent,
                                   IF runs[r].email_sent THEN "sent" ELSE "deliver_failed")]
    /\ last_run_result' = ResultAfter(r, runs'[r])
    /\ UNCHANGED << users, problems, outbox, is_running, missing_fields, refused, health, jobs, stats >>

\* Step 5 when the database cannot be written: mark_problem_sent logs the
\* sqlite error and returns False, _process_user_email does not look at the
\* returned value and returns what the delivery returned.
MarkProblemSentStoreUnavailable(r) ==
    /\ runs[r].pc = "record"
    /\ runs' = [runs EXCEPT ![r] = AfterUser(@, runs[r].email_sent,
                       IF runs[r].email_sent THEN "sent_unrecorded"
                       ELSE "deliver_failed_unrecorded")]
    /\ last_run_result' = ResultAfter(r, runs'[r])
    /\ UNCHANGED << users, problems, sent_problems, outbox, is_running, missing_fields, refused, health, jobs, stats >>

\* initialize_sample_data: add every problem of the file to the store.
initialize_sample_data ==
    /\ Len(problems) + Len(problems_file) <= MaxProblems
    /\ problems' = problems \o problems_file
    /\ UNCHANGED << users, sent_problems, runs, outbox, is_running, last_run_result, missing_fields, refused, health, jobs, stats >>

\* add_user that re-subscribes an inactive address with a new row.
add_user_table_reactivate_by_insert(tbl, email, language, difficulty) ==
    IF email = "" \/ ~HasAt(email) THEN tbl
    ELSE IF language \notin SUPPORTED_LANGUAGES THEN tbl
    ELSE IF difficulty \notin DIFFICULTY_LEVELS THEN tbl
    ELSE IF \E i \in 1..Len(tbl) : tbl[i].email = email /\ tbl[i].is_active THEN tbl
    ELSE Append(tbl, [email |-> email, preferred_language |-> language,
                      preferred_difficulty |-> difficulty, is_active |-> TRUE])

\* add_user that takes the preferences given for an active address.
add_user_table_overwrites_active(tbl, email, language, difficulty) ==
    IF email = "" \/ ~HasAt(email) THEN tbl
    ELSE IF language \notin SUPPORTED_LANGUAGES THEN tbl
    ELSE IF difficulty \notin DIFFICULTY_LEVELS THEN tbl
    ELSE IF \E i \in 1..Len(tbl) : tbl[i].email = email
    THEN db_update_user_preferences(tbl, email, language, difficulty)
    ELSE db_add_user(tbl, email, language, difficulty)

\* The users table after coordinator.add_user(email, language, difficulty).
add_user_table(tbl, email, language, difficulty) ==
    LET existing == {i \in 1..Len(tbl) : tbl[i].email = email}
    IN IF email = "" \/ ~HasAt(email) THEN tbl
       ELSE IF language \notin SUPPORTED_LANGUAGES THEN tbl
       ELSE IF difficulty \notin DIFFICULTY_LEVELS THEN tbl
       ELSE IF existing # {}
       THEN IF \E i \in existing : tbl[i].is_active
            THEN tbl
            ELSE \* "Reactivate user with new preferences", then deactivate_user
                 deactivate_user(
                     db_update_user_preferences(tbl, email, language, difficulty),
                     email)
       ELSE db_add_user(tbl, email, language, difficulty)

\* coordinator.add_user
add_user(email, language, difficulty) ==
    /\ get_user_by_email(email) # None \/ Len(users) < MaxUsers
    /\ users' = add_user_table(users, email, language, difficulty)
    /\ UNCHANGED << problems, sent_problems, runs, outbox, is_running, last_run_result, missing_fields, refused, health, jobs, stats >>

\* remove_user that flips the flag of the address it is given.
remove_user_toggles(email) ==
    /\ users' = [i \in 1..Len(users) |->
                    IF users[i].email = email
                    THEN [users[i] EXCEPT !.is_active = ~@]
                    ELSE users[i]]
    /\ UNCHANGED << problems, sent_problems, runs, outbox, is_running, last_run_result, missing_fields, refused, health, jobs, stats >>

\* What coordinator.remove_user returns: False for an unknown address, True
\* for an inactive one and after deactivate_user updated the row.
remove_user_result(email) == get_user_by_email(email) # None

\* coordinator.remove_user: unknown or inactive addresses change nothing.
remove_user(email) ==
    /\ users' = IF get_user_by_email(email) = None THEN users
                ELSE IF ~users[get_user_by_email(email)].is_active THEN users
                ELSE deactivate_user(users, email)
    /\ UNCHANGED << problems, sent_problems, runs, outbox, is_running, last_run_result, missing_fields, refused, health, jobs, stats >>

\* What coordinator.add_user returns: False for an input it rejects and for
\* an address that is subscribed, True after an insert or an update.
add_user_result(tbl, email, language, difficulty) ==
    /\ email # "" /\ HasAt(email)
    /\ language \in SUPPORTED_LANGUAGES
    /\ difficulty \in DIFFICULTY_LEVELS
    /\ ~ \E i \in 1..Len(tbl) : tbl[i].email = email /\ tbl[i].is_active

\* coordinator.update_user_preferences: "" stands for None.
update_user_preferences(email, language, difficulty) ==
    /\ users' =
          IF language # "" /\ language \notin SUPPORTED_LANGUAGES THEN users
          ELSE IF difficulty # "" /\ difficulty \notin DIFFICULTY_LEVELS THEN users
          ELSE IF get_user_by_email(email) = None THEN users
          ELSE db_update_user_preferences(users, email, language, difficulty)
    /\ UNCHANGED << problems, sent_problems, runs, outbox, is_running,
                    last_run_result, missing_fields, refused, health, jobs, stats >>

\* What coordinator.update_user_preferences returns: False for a preference
\* that is given and not supported, for an unknown address, and when no
\* preference is given (the database method has nothing to update).
update_user_preferences_result(email, language, difficulty) ==
    /\ language = "" \/ language \in SUPPORTED_LANGUAGES
    /\ difficulty = "" \/ difficulty \in DIFFICULTY_LEVELS
    /\ get_user_by_email(email) # None
    /\ language # "" \/ difficulty # ""

\* The preferences update_user_preferences is called with.
PreferenceLanguageInputs == {"", "go", "cobol"}
PreferenceDifficultyInputs == {"", "medium", "extreme"}

\* ------------------------------------------------------ the forms of the UI
\* What the forms can submit: the address is typed, the language and the
\* difficulty are picked from the supported ones.
FormEmailInputs == {"a@x.io", "b@x.io", "c@x.io", "nomail"}
FormLanguageInputs == {"python", "java"}
FormDifficultyInputs == {"easy", "hard"}

\* show_subscription_form: an address without "@" is turned down by the
\* form; else add_user, and an error box when it returned False.
show_subscription_form(email, language, difficulty) ==
    /\ email # "" /\ HasAt(email)
    /\ get_user_by_email(email) # None \/ Len(users) < MaxSubscribers
    /\ users' = add_user_table(users, email, language, difficulty)
    /\ refused' = IF add_user_result(users, email, language, difficulty)
                  THEN refused
                  ELSE refused \cup {"show_subscription_form"}
    /\ UNCHANGED << problems, sent_problems, runs, outbox, is_running,
                    last_run_result, missing_fields, health, jobs, stats >>

\* show_unsubscribe_form
show_unsubscribe_form(email) ==
    /\ email # "" /\ HasAt(email)
    /\ remove_user(email)

\* show_update_preferences_form: at least one preference must be picked.
show_update_preferences_form(email, language, difficulty) ==
    /\ email # "" /\ HasAt(email)
    /\ language # "" \/ difficulty # ""
    /\ update_user_preferences(email, language, difficulty)

\* --------------------------------------------------------------- scheduler
\* Instances of the cron job that the scheduler's executor is running.
CronInstances == {r \in 1..MaxRuns : runs[r].kind = "cron" /\ InFlight(r)}

\* Config.SCHEDULER_HOUR, SCHEDULER_MINUTE, SCHEDULER_TIMEZONE by default.
SCHEDULER_HOUR == 9
SCHEDULER_MINUTE == 0
SCHEDULER_TIMEZONE == "UTC"

\* DailyScheduler.job_id.
job_id == "daily_leetcode_emails"

\* The daily job with a cron trigger at hour:minute in timezone.
DailyJob(hour, minute, timezone) ==
    [id |-> job_id, hour |-> hour, minute |-> minute, timezone |-> timezone]

\* The positions of the jobs with this id in the job store.
JobsWithId(store, id) == {k \in 1..Len(store) : store[k].id = id}

\* scheduler.remove_job(id): the store without the jobs of that id.
remove_job(store, id) == SeqFilter(store, {job \in Range(store) : job.id # id})

\* scheduler.add_job(..., replace_existing=True): the new job takes the
\* place of a job with its id.
add_job(store, job) == Append(remove_job(store, job.id), job)

\* start adding the job again on a scheduler that is running.
start_without_guard ==
    /\ jobs' = Append(jobs, DailyJob(SCHEDULER_HOUR, SCHEDULER_MINUTE, SCHEDULER_TIMEZONE))
    /\ is_running' = TRUE
    /\ UNCHANGED << users, problems, sent_problems, runs, outbox, last_run_result, missing_fields, refused, health, stats >>

\* DailyScheduler.start: return True at once when is_running, else register
\* the daily job at the configured time and start the scheduler.
start ==
    /\ IF is_running
       THEN UNCHANGED << jobs, is_running >>
       ELSE /\ jobs' = add_job(jobs, DailyJob(SCHEDULER_HOUR, SCHEDULER_MINUTE,
                                              SCHEDULER_TIMEZONE))
            /\ is_running' = TRUE
    /\ UNCHANGED << users, problems, sent_problems, runs, outbox, last_run_result, missing_fields, refused, health, stats >>

\* DailyScheduler.stop: return True at once when not is_running, else
\* shutdown(wait=True), which returns once the executor has no running job
\* and leaves a job store that holds no job.
stop ==
    /\ is_running => CronInstances = {}
    /\ IF ~is_running
       THEN UNCHANGED << jobs, is_running >>
       ELSE /\ jobs' = << >>
            /\ is_running' = FALSE
    /\ UNCHANGED << users, problems, sent_problems, runs, outbox, last_run_result, missing_fields, refused, health, stats >>

\* The cron trigger fires: the executor runs _run_daily_job unless the job
\* already has max_instances running instances.
cron_trigger ==
    /\ is_running
    /\ JobsWithId(jobs, job_id) # {}
    /\ Cardinality(CronInstances) < max_instances
    /\ \E r \in 1..MaxRuns : Begin(r, "cron")

\* The arguments reschedule is called with: << >> is None.
HourInputs == {<< >>, << 10 >>, << 24 >>}
MinuteInputs == {<< >>, << 30 >>, << 60 >>}
TimezoneInputs == {<< >>, << "Europe/Berlin" >>, << "Mars/Phobos" >>}

\* The timezone names CronTrigger takes; for any other it raises.
KnownTimezones == {"UTC", "Europe/Berlin"}

\* The argument, or the value of Config when it is None.
OrConfig(argument, config) == IF argument = << >> THEN config ELSE argument[1]

\* What reschedule returns: False for an hour or a minute out of range, on
\* a scheduler that is not running, and from the except branch when
\* remove_job finds no job or CronTrigger raises.
reschedule_result(hour, minute, timezone) ==
    LET new_hour == OrConfig(hour, SCHEDULER_HOUR)
        new_minute == OrConfig(minute, SCHEDULER_MINUTE)
        new_timezone == OrConfig(timezone, SCHEDULER_TIMEZONE)
    IN /\ 0 <= new_hour /\ new_hour <= 23
       /\ 0 <= new_minute /\ new_minute <= 59
       /\ is_running
       /\ JobsWithId(jobs, job_id) # {}
       /\ new_timezone \in KnownTimezones

\* DailyScheduler.reschedule: validate, then remove_job, then build the
\* trigger and add_job; an exception ends it where it is raised.
reschedule(hour, minute, timezone) ==
    /\ LET new_hour == OrConfig(hour, SCHEDULER_HOUR)
           new_minute == OrConfig(minute, SCHEDULER_MINUTE)
           new_timezone == OrConfig(timezone, SCHEDULER_TIMEZONE)
       IN IF ~(0 <= new_hour /\ new_hour <= 23) THEN UNCHANGED jobs
          ELSE IF ~(0 <= new_minute /\ new_minute <= 59) THEN UNCHANGED jobs
          ELSE IF ~is_running THEN UNCHANGED jobs
          ELSE IF JobsWithId(jobs, job_id) = {} THEN UNCHANGED jobs
          ELSE IF new_timezone \notin KnownTimezones
               THEN jobs' = remove_job(jobs, job_id)
          ELSE jobs' = add_job(remove_job(jobs, job_id),
                               DailyJob(new_hour, new_minute, new_timezone))
    /\ UNCHANGED << users, problems, sent_problems, runs, outbox, is_running,
                    last_run_result, missing_fields, refused, health, stats >>

\* DailyScheduler.run_now: _run_daily_job in the caller's thread.
run_now == \E r \in 1..MaxRuns : Begin(r, "run_now")

\* show_admin_panel "Send Test Emails Now": the batch is called on the
\* panel's coordinator, without the scheduler and without a validation.
show_admin_panel == \E r \in 1..MaxRuns : Begin(r, "direct")

\* _run_daily_job without its except branch: the exception leaves the
\* wrapper, no result is stored, and the thread that called run_now dies.
JobRaises_unhandled(r) ==
    /\ runs[r].kind \in {"cron", "run_now"}
    /\ InFlight(r)
    /\ runs' = [runs EXCEPT ![r].pc = "raised"]
    /\ is_running' = IF runs[r].kind = "run_now" THEN FALSE ELSE is_running
    /\ UNCHANGED << users, problems, sent_problems, outbox, last_run_result,
                    missing_fields, refused, health, jobs, stats >>

\* _run_daily_job when the job function raises: the except branch builds
\* the error result, stores it as last_run_result and returns it.
JobRaises(r) ==
    /\ runs[r].kind \in {"cron", "run_now"}
    /\ InFlight(r)
    /\ runs' = [runs EXCEPT ![r].pc = "raised"]
    /\ last_run_result' = [run |-> r, job_status |-> "failed", error |-> "str(e)"]
    /\ UNCHANGED << users, problems, sent_problems, outbox, is_running,
                    missing_fields, refused, health, jobs, stats >>

\* ------------------------------------------------------------ health check
\* What the four probes can answer: get_active_users gives a list or raises,
\* the two test_connection give True or False or raise, get_stats gives a
\* total that is positive or zero, or raises.
HealthInputs ==
    [database : {"list", "raises"},
     groq_api : {"true", "false", "raises"},
     email : {"true", "false", "raises"},
     fetch_agent : {"some", "none", "raises"}]

\* One try block around the four probes: after the first one that raises
\* the others are not evaluated.
test_system_health_one_try(checks) ==
    LET database == checks.database = "list"
        groq_api == checks.database # "raises" /\ checks.groq_api = "true"
        email == /\ checks.database # "raises" /\ checks.groq_api # "raises"
                 /\ checks.email = "true"
        fetch_agent == /\ checks.database # "raises" /\ checks.groq_api # "raises"
                       /\ checks.email # "raises" /\ checks.fetch_agent = "some"
    IN [database |-> database, groq_api |-> groq_api, email |-> email,
        fetch_agent |-> fetch_agent,
        overall |-> database /\ groq_api /\ email /\ fetch_agent]

\* coordinator.test_system_health: each probe in a try block of its own, an
\* exception giving False; overall = all(health.values()).
test_system_health(checks) ==
    LET database == checks.database # "raises"
        groq_api == checks.groq_api = "true"
        email == checks.email = "true"
        fetch_agent == checks.fetch_agent = "some"
    IN [database |-> database, groq_api |-> groq_api, email |-> email,
        fetch_agent |-> fetch_agent,
        overall |-> database /\ groq_api /\ email /\ fetch_agent]

\* show_system_stats (page "System Status") showing the report for what the
\* probes answered.
ShowSystemStatsWith(checks) ==
    /\ health' = << test_system_health(checks) >>
    /\ UNCHANGED << users, problems, sent_problems, runs, outbox, is_running,
                    last_run_result, missing_fields, refused, jobs, stats >>

show_system_stats == \E checks \in HealthInputs : ShowSystemStatsWith(checks)

\* ------------------------------------------------------------ main, config
RequiredFields == {"GROQ_API_KEY", "EMAIL_ADDRESS", "EMAIL_PASSWORD"}

\* A validation that lets every configuration pass.
validate_config_always_true == TRUE

\* Config.validate_config: no required field is empty.
validate_config == missing_fields = {}

\* main.run_scheduler: validate the configuration, construct the
\* coordinator, test the health and, if overall is true, construct the
\* scheduler and start it.  (A failed health check returns before the
\* scheduler exists and changes nothing.)
run_scheduler ==
    \/ /\ ~validate_config
       /\ refused' = refused \cup {"run_scheduler"}
       /\ UNCHANGED << users, problems, sent_problems, runs, outbox, is_running,
                       last_run_result, missing_fields, health, jobs, stats >>
    \/ /\ validate_config
       /\ \E checks \in HealthInputs : test_system_health(checks).overall
       /\ start

\* main.run_once: validate the configuration, then run one batch.
run_once ==
    \/ /\ ~validate_config
       /\ refused' = refused \cup {"run_once"}
       /\ UNCHANGED << users, problems, sent_problems, runs, outbox, is_running,
                       last_run_result, missing_fields, health, jobs, stats >>
    \/ /\ validate_config
       /\ \E r \in 1..MaxRuns : Begin(r, "run_once")

\* ------------------------------------------------------------------ stats
\* No get_user_stats call has been made.
NoStats == [pc |-> "idle", user_id |-> None, total_sent |-> 0, by_difficulty |-> EmptyBag]

\* The rows of sent_problems of the user with email_status = 'sent'.
SentRows(sp, user_id) ==
    {row \in BagToSet(sp) : row.user_id = user_id /\ row.email_status = "sent"}

\* SELECT COUNT(*) FROM sent_problems WHERE user_id = ? AND email_status = 'sent'
CountSent(sp, user_id) == BagSum(sp, SentRows(sp, user_id))

\* SELECT p.difficulty, COUNT(*) FROM sent_problems sp JOIN problems p
\* ON sp.problem_id = p.id WHERE sp.user_id = ? AND sp.email_status = 'sent'
\* GROUP BY p.difficulty: a difficulty is a key when its count is positive.
CountByDifficulty(ptbl, sp, user_id) ==
    LET joined(d) == {row \in SentRows(sp, user_id) :
                        /\ row.problem_id \in 1..Len(ptbl)
                        /\ ptbl[row.problem_id].difficulty = d}
        keys == {d \in DIFFICULTY_LEVELS : joined(d) # {}}
    IN [d \in keys |-> BagSum(sp, joined(d))]

\* get_user_stats, the first query: total_sent.
get_user_stats_total(user_id) ==
    /\ stats.pc \in {"idle", "done"}
    /\ stats' = [pc |-> "counted", user_id |-> user_id,
                 total_sent |-> CountSent(sent_problems, user_id),
                 by_difficulty |-> EmptyBag]
    /\ UNCHANGED << users, problems, sent_problems, runs, outbox, is_running,
                    last_run_result, missing_fields, refused, health, jobs >>

\* get_user_stats, the second query and the return: by_difficulty.
get_user_stats_by_difficulty ==
    /\ stats.pc = "counted"
    /\ stats' = [stats EXCEPT
                    !.pc = "done",
                    !.by_difficulty = CountByDifficulty(problems, sent_problems,
                                                        stats.user_id)]
    /\ UNCHANGED << users, problems, sent_problems, runs, outbox, is_running,
                    last_run_result, missing_fields, refused, health, jobs >>

\* ------------------------------------------------------------ specification
EmptyStore ==
    /\ sent_problems = EmptyBag
    /\ runs = [r \in 1..MaxRuns |-> IdleRun]
    /\ outbox = {}
    /\ is_running = FALSE
    /\ last_run_result = NoResult
    /\ jobs = << >>
    /\ stats = NoStats

\* .env gives every required field.
ConfigValid ==
    /\ missing_fields = {}
    /\ refused = {}
    /\ health = << >>

\* A coordinator and a scheduler constructed over a new database file.
Init ==
    /\ users = << >>
    /\ problems = << >>
    /\ EmptyStore
    /\ ConfigValid

Steps ==
    \/ \E r \in 1..MaxRuns : SelectItem(r)
    \/ \E r \in 1..MaxRuns : GetAndStoreNewProblem(r)
    \/ \E r \in 1..MaxRuns : GenerateSolution(r)
    \/ \E r \in 1..MaxRuns : SendDailyProblem(r)
    \/ \E r \in 1..MaxRuns : MarkProblemSent(r)

\* The whole system: the scheduler's thread, the callers of run_now and the
\* admin panel run batches side by side, subscriptions change meanwhile.
Next ==
    \/ \E e \in EmailInputs, l \in LanguageInputs, d \in DifficultyInputs : add_user(e, l, d)
    \/ \E e \in EmailInputs : remove_user(e)
    \/ initialize_sample_data
    \/ start
    \/ stop
    \/ cron_trigger
    \/ run_now
    \/ show_admin_panel
    \/ Steps

Spec == Init /\ [][Next]_vars

\* A coordinator and a scheduler constructed over a database that already
\* holds three active subscribers and the sample problems.
Subscriber(email, difficulty) ==
    [email |-> email, preferred_language |-> "python",
     preferred_difficulty |-> difficulty, is_active |-> TRUE]

InitSubscribed ==
    /\ \E d \in {"easy", "hard"} :
          users = << Subscriber("a@x.io", "easy"), Subscriber("b@x.io", "easy"),
                     Subscriber("c@x.io", d) >>
    /\ problems = problems_file
    /\ EmptyStore
    /\ ConfigValid

NoBatchInFlight == \A q \in 1..MaxRuns : ~InFlight(q)

\* One batch at a time: a batch is started only when none is in flight.
NextSerial ==
    \/ start
    \/ stop
    \/ NoBatchInFlight /\ cron_trigger
    \/ NoBatchInFlight /\ run_now
    \/ Steps

SpecSerial == InitSubscribed /\ [][NextSerial]_vars

\* The process dies and is started again: the database file survives, the
\* batches in flight are gone with the solutions they held in memory, and
\* the scheduler object is a new one.
Crash ==
    /\ ~NoBatchInFlight
    /\ runs' = [r \in 1..MaxRuns |->
                    IF InFlight(r)
                    THEN [runs[r] EXCEPT !.pc = "crashed", !.solution = << >>]
                    ELSE runs[r]]
    /\ is_running' = FALSE
    /\ jobs' = << >>
    /\ last_run_result' = NoResult
    /\ UNCHANGED << users, problems, sent_problems, outbox, missing_fields, refused, health, stats >>

NextCrash ==
    \/ NextSerial
    \/ Crash

\* One batch at a time, and the process may crash and restart at any step.
SpecCrash == InitSubscribed /\ [][NextCrash]_vars

\* One batch at a time, and any write of the ledger may fail.
NextStore ==
    \/ NextSerial
    \/ \E r \in 1..MaxRuns : MarkProblemSentStoreUnavailable(r)

\* A database that holds two active subscribers and the sample problems.
InitTwoSubscribed ==
    /\ \E d \in {"easy", "hard"} :
          users = << Subscriber("a@x.io", "easy"), Subscriber("b@x.io", d) >>
    /\ problems = problems_file
    /\ EmptyStore
    /\ ConfigValid

SpecStore == InitTwoSubscribed /\ [][NextStore]_vars

\* A database with one active subscriber and the sample problems, under any
\* .env: each required field is there or is not.
InitConfig ==
    /\ \E d \in {"easy", "hard"} : users = << Subscriber("a@x.io", d) >>
    /\ problems = problems_file
    /\ EmptyStore
    /\ missing_fields \in SUBSET RequiredFields
    /\ refused = {}
    /\ health = << >>

\* Every way a batch or the scheduler is started: the commands of main, the
\* admin panel, and the scheduler's own methods.
NextConfig ==
    \/ run_scheduler
    \/ run_once
    \/ show_admin_panel
    \/ start
    \/ stop
    \/ cron_trigger
    \/ run_now
    \/ Steps

SpecConfig == InitConfig /\ [][NextConfig]_vars

\* One batch at a time, run by a scheduler whose job function may raise.
NextJob ==
    \/ NextSerial
    \/ \E r \in 1..MaxRuns : JobRaises(r)

SpecJob == InitTwoSubscribed /\ [][NextJob]_vars

\* One batch at a time over a database with one active subscriber and the
\* sample problems, every credential configured.
InitOneSubscribed == InitConfig /\ missing_fields = {}

SpecPipeline == InitOneSubscribed /\ [][NextSerial]_vars

\* One batch at a time, while subscribers unsubscribe.
NextUnsubscribe ==
    \/ NextSerial
    \/ \E e \in EmailInputs : remove_user(e)

SpecUnsubscribe == InitTwoSubscribed /\ [][NextUnsubscribe]_vars

\* One batch at a time, on a scheduler that is rescheduled at any moment.
NextSchedule ==
    \/ NextSerial
    \/ \E hour \in HourInputs, minute \in MinuteInputs, timezone \in TimezoneInputs :
          reschedule(hour, minute, timezone)

SpecSchedule == InitOneSubscribed /\ [][NextSchedule]_vars

\* One batch at a time, while the statistics of a subscriber are read.
NextStats ==
    \/ NextSerial
    \/ \E u \in 1..Len(users) : get_user_stats_total(u)
    \/ get_user_stats_by_difficulty

SpecStats == InitOneSubscribed /\ [][NextStats]_vars

\* The subscribers and the forms they use, on a new database file.
NextUsers ==
    \/ \E e \in FormEmailInputs, l \in FormLanguageInputs, d \in FormDifficultyInputs :
          show_subscription_form(e, l, d)
    \/ \E e \in FormEmailInputs : show_unsubscribe_form(e)
    \/ \E e \in FormEmailInputs, l \in FormLanguageInputs \cup {""},
          d \in FormDifficultyInputs \cup {""} :
          show_update_preferences_form(e, l, d)

SpecUsers == Init /\ [][NextUsers]_vars

\* The forms, and remove_user called on the coordinator with any address.
NextAccounts ==
    \/ NextUsers
    \/ \E e \in EmailInputs : remove_user(e)

SpecAccounts == Init /\ [][NextAccounts]_vars

\* Three subscribers, and remove_user and update_user_preferences called on
\* the coordinator with any address and any preference.
NextPreferences ==
    \/ \E e \in EmailInputs : remove_user(e)
    \/ \E e \in EmailInputs, l \in PreferenceLanguageInputs,
          d \in PreferenceDifficultyInputs : update_user_preferences(e, l, d)

SpecPreferences == InitSubscribed /\ [][NextPreferences]_vars

\* The health check, as the command that starts the scheduler runs it and as
\* the page "System Status" shows it, under any .env.
NextHealth ==
    \/ show_system_stats
    \/ run_scheduler
    \/ stop

SpecHealth == InitConfig /\ [][NextHealth]_vars

\* ------------------------------------------------------------------ claims
\* Rows of sent_problems for the pair, counted with multiplicity.
RecordCount(sp, user_id, problem_id) == BagSum(sp, PairRows(sp, user_id, problem_id))

\* The pairs a batch wrote a record for.
Recorded(r) ==
    {[user_id |-> runs[r].log[k].user_id, problem |-> runs[r].log[k].problem] :
        k \in {j \in 1..Len(runs[r].log) :
                  runs[r].log[j].outcome \in {"sent", "deliver_failed"}}}

\* The pairs a batch selected: those of its finished pipelines and the one
\* it is working on.
Selected(r) ==
    {[user_id |-> runs[r].log[k].user_id, problem |-> runs[r].log[k].problem] :
        k \in {j \in 1..Len(runs[r].log) : runs[r].log[j].problem # None}}
    \cup (IF InFlight(r) /\ runs[r].problem # None
          THEN {[user_id |-> CurrentUser(r).id, problem |-> runs[r].problem]}
          ELSE {})

\* C1: in every reachable state the ledger holds at most one DeliveryRecord
\* for each (subscriber, item) pair.
C1_AtMostOneRecordPerPair ==
    \A u \in 1..Len(users), p \in 1..Len(problems) :
        RecordCount(sent_problems, u, p) <= 1

\* C1 witness: two batches have both recorded an outcome for the same pair,
\* and the ledger holds one row for it.
C1_Witness ==
    \E pair \in Recorded(1) \cap Recorded(2) :
        RecordCount(sent_problems, pair.user_id, pair.problem) = 1

\* C2 as claimed: two runs of the batch leave no pair with two records, and
\* the second run never selects for a subscriber the item the first run
\* selected for that subscriber.
C2_SecondRunSelectsDifferent ==
    /\ \A u \in 1..Len(users), p \in 1..Len(problems) :
          RecordCount(sent_problems, u, p) < 2
    /\ \A r1 \in 1..MaxRuns, r2 \in 1..MaxRuns :
          r1 < r2 => Selected(r1) \cap Selected(r2) = {}

\* C2 amended: two runs of the batch, one after the other, leave no pair
\* with two records, and the second run never selects for a subscriber an
\* item the first run wrote a DeliveryRecord for (sent or failed); an item
\* whose generation failed in the first run has no record and may be
\* selected again.
C2_SecondRunSelectsUnrecorded ==
    /\ \A u \in 1..Len(users), p \in 1..Len(problems) :
          RecordCount(sent_problems, u, p) < 2
    /\ \A r1 \in 1..MaxRuns, r2 \in 1..MaxRuns :
          r1 < r2 => Recorded(r1) \cap Selected(r2) = {}

\* C2 witness: the second run has finished a pipeline for a subscriber the
\* first run wrote a record for, with another item.
C2_Witness ==
    \E a \in Recorded(1), b \in Recorded(2) :
        a.user_id = b.user_id /\ a.problem # b.problem

\* C3: no subscriber is ever mailed the same item twice, across repeated
\* runs and across a crash and restart.
C3_NeverMailedTwice ==
    \A m1 \in outbox, m2 \in outbox :
        (m1.user_id = m2.user_id /\ m1.problem_id = m2.problem_id) => m1.run = m2.run

\* C4: a run_now() made while a batch is in flight starts no second batch
\* beside it (runs are numbered in the order they start).
C4_RunNowStartsNoSecondBatch ==
    \A r1 \in 1..MaxRuns, r2 \in 1..MaxRuns :
        (r1 < r2 /\ runs[r2].kind = "run_now") => ~(InFlight(r1) /\ InFlight(r2))

\* C5: at most one batch started by the cron trigger is in flight at any time.
C5_AtMostOneCronBatch == Cardinality(CronInstances) <= 1

\* C5 witness: a cron batch is in flight, the scheduler is running and a
\* further batch could be started: the trigger fires and is skipped.
C5_Witness ==
    /\ is_running
    /\ CronInstances # {}
    /\ \E r \in 1..MaxRuns : runs[r].pc = "idle"

\* Active rows of the users table with the address.
ActiveCount(tbl, email) ==
    Cardinality({i \in 1..Len(tbl) : tbl[i].email = email /\ tbl[i].is_active})

\* C6: add_user for an address that exists and is inactive reactivates it:
\* afterwards the active subscribers contain the address exactly once.
C6_ReactivationActivates ==
    [][\A e \in EmailInputs, l \in LanguageInputs \cap SUPPORTED_LANGUAGES,
          d \in DifficultyInputs \cap DIFFICULTY_LEVELS :
            ( /\ get_user_by_email(e) # None
              /\ ~users[get_user_by_email(e)].is_active
              /\ add_user(e, l, d) )
            => ActiveCount(users', e) = 1]_vars

\* The outcomes of a batch, subscriber by subscriber.
Outcomes(r) == [k \in 1..Len(runs[r].log) |-> runs[r].log[k].outcome]

\* Rows of the subscriber with the status, counted with multiplicity.
StatusCount(sp, user_id, status) ==
    BagSum(sp, {row \in BagToSet(sp) : row.user_id = user_id /\ row.email_status = status})

\* C7: the first batch over three active subscribers, generation failing for
\* the second one only, returns delivered = 2, failed = 1 and one message in
\* errors, and subscribers 1 and 3 have one record each, with status sent.
C7_PartialFailureIsolation ==
    ( /\ runs[1].pc = "done"
      /\ Outcomes(1) = << "sent", "generate_failed", "sent" >> )
    => /\ runs[1].emails_sent = 2
       /\ runs[1].emails_failed = 1
       /\ Len(runs[1].errors) = 1
       /\ \A k \in {1, 3} :
             StatusCount(sent_problems, runs[1].active_users[k].id, "sent") = 1

\* C8: at the end of a batch every failed subscriber has a message in errors.
C8_FailuresHaveMessages ==
    \A r \in 1..MaxRuns :
        runs[r].pc = "done" => Len(runs[r].errors) >= runs[r].emails_failed

\* C9: when a batch returns, every subscriber that was active when it
\* started has had its pipeline attempted, in the order they were listed,
\* whatever happened to the subscribers before it.
C9_EverySubscriberAttempted ==
    \A r \in 1..MaxRuns :
        runs[r].pc = "done" =>
            /\ Len(runs[r].log) = Len(runs[r].active_users)
            /\ \A k \in 1..Len(runs[r].log) :
                  runs[r].log[k].user_id = runs[r].active_users[k].id

\* C9 witness: a batch over several subscribers has returned, its first
\* subscriber failed and its last one was delivered.
C9_Witness ==
    \E r \in 1..MaxRuns :
        /\ runs[r].pc = "done"
        /\ Len(runs[r].log) >= 2
        /\ runs[r].log[1].outcome # "sent"
        /\ runs[r].log[Len(runs[r].log)].outcome = "sent"

OutcomeCount(r, outcome) ==
    Cardinality({k \in 1..Len(runs[r].log) : runs[r].log[k].outcome = outcome})

\* C11: when the record of a delivery cannot be written the batch aborts: the
\* subscriber whose record was not written is the last one the batch
\* processed, the batch is over, and that subscriber is not counted as
\* delivered.
C11_LedgerFailureAbortsBatch ==
    \A r \in 1..MaxRuns : \A k \in 1..Len(runs[r].log) :
        runs[r].log[k].outcome \in {"sent_unrecorded", "deliver_failed_unrecorded"} =>
            /\ k = Len(runs[r].log)
            /\ ~InFlight(r)
            /\ runs[r].emails_sent = OutcomeCount(r, "sent")

\* The items of the tier that appear in no record of the subscriber.
Unseen(user_id, difficulty) ==
    {p \in 1..Len(problems) :
        /\ problems[p].difficulty = difficulty
        /\ PairRows(sent_problems, user_id, p) = {}}

ReceivedAll(user_id, difficulty) ==
    /\ \E p \in 1..Len(problems) : problems[p].difficulty = difficulty
    /\ \A p \in 1..Len(problems) :
          problems[p].difficulty = difficulty =>
              \E row \in PairRows(sent_problems, user_id, p) : row.email_status = "sent"

\* What the fetch agent yields for the tier is nothing, or an item the store
\* already holds.
NothingNew(difficulty) ==
    LET fetched == get_problem_by_difficulty(difficulty)
    IN fetched # None =>
          \E p \in 1..Len(problems) : problems[p].title = problems_file[fetched].title

\* C14: when the subscriber has received every stored item of the tier and
\* ingestion yields nothing new, the ingestion step ends the subscriber's
\* pipeline: the subscriber is counted failed, no record is written, no item
\* is stored, and the batch moves on after this one selection and ingestion.
C14_ExhaustionFailsSubscriber ==
    [][\A r \in 1..MaxRuns :
          ( /\ runs[r].pc = "fetch" /\ runs'[r].pc # "fetch"
            /\ ReceivedAll(CurrentUser(r).id, CurrentUser(r).preferred_difficulty)
            /\ NothingNew(CurrentUser(r).preferred_difficulty) )
          => /\ runs'[r].emails_failed = runs[r].emails_failed + 1
             /\ runs'[r].emails_sent = runs[r].emails_sent
             /\ Len(runs'[r].log) = Len(runs[r].log) + 1
             /\ sent_problems' = sent_problems
             /\ problems' = problems
      ]_vars

\* C15: when generation fails for a subscriber the pipeline of that
\* subscriber ends there: nothing is delivered, the ledger is as it was, and
\* the failure is counted.
C15_GenerationFailureWritesNothing ==
    [][\A r \in 1..MaxRuns :
          (runs[r].pc = "generate" /\ runs'[r].pc \notin {"generate", "deliver"}) =>
              /\ sent_problems' = sent_problems
              /\ outbox' = outbox
              /\ runs'[r].emails_failed = runs[r].emails_failed + 1
              /\ runs'[r].emails_sent = runs[r].emails_sent
              /\ runs'[r].log = Append(runs[r].log,
                                       [user_id |-> CurrentUser(r).id,
                                        problem |-> runs[r].problem,
                                        outcome |-> "generate_failed"])
      ]_vars

\* C15 witness: a batch has returned, generation failed in it for a
\* subscriber and an item, and neither a record nor a mail exists for them.
C15_Witness ==
    \E r \in 1..MaxRuns : \E k \in 1..Len(runs[r].log) :
        /\ runs[r].pc = "done"
        /\ runs[r].log[k].outcome = "generate_failed"
        /\ runs[r].emails_failed >= 1
        /\ PairRows(sent_problems, runs[r].log[k].user_id, runs[r].log[k].problem) = {}
        /\ ~ \E m \in outbox : /\ m.user_id = runs[r].log[k].user_id
                                /\ m.problem_id = runs[r].log[k].problem

\* The section headers the prompt asks the answer to have.
ExpectedSections ==
    {"solution:", "explanation:", "time complexity:", "space complexity:", "approach:"}

\* The call raised or gave no content, the content is empty, or it lacks
\* one of the expected sections.
BadResponse(response) ==
    \/ response.kind # "content"
    \/ Strip(response.content) = << >>
    \/ \E h \in ExpectedSections :
          \A i \in 1..Len(response.content) : response.content[i] # h

\* C16: whenever the generation call errors, returns empty content or
\* returns a response that cannot be parsed into the expected sections, the
\* content pipeline fails: nothing goes on to delivery and the subscriber is
\* counted failed.
C16_GenerationFailsOnBadResponse ==
    [][\A r \in 1..MaxRuns, response \in ResponseInputs :
          (BadResponse(response) /\ GenerateSolutionWith(r, response)) =>
              /\ runs'[r].pc # "deliver"
              /\ runs'[r].emails_failed = runs[r].emails_failed + 1
      ]_vars

\* C17 as claimed: DailyScheduler.start, called while the generation-API
\* credential is missing, does not register the cron job.
C17_StartRefusesWithoutKey ==
    [][("GROQ_API_KEY" \in missing_fields /\ start) => ~is_running']_vars

\* C17 amended: starting the scheduler through main.run_scheduler while the
\* generation-API credential is missing returns at the validation and never
\* calls DailyScheduler.start, so no cron job is registered by it;
\* DailyScheduler.start itself checks no credential.
C17_RunSchedulerRefusesWithoutKey ==
    [][("GROQ_API_KEY" \in missing_fields /\ run_scheduler) =>
          /\ "run_scheduler" \in refused'
          /\ is_running' = is_running
          /\ runs' = runs
      ]_vars

\* C17 witness: the key is missing, run_scheduler has returned at the
\* validation and no scheduler is running.
C17_Witness ==
    /\ "GROQ_API_KEY" \in missing_fields
    /\ "run_scheduler" \in refused
    /\ ~is_running

\* C18: with a required credential missing no batch is ever run, whatever
\* the entry point.
C18_NoBatchWithoutCredentials ==
    missing_fields # {} => \A r \in 1..MaxRuns : runs[r].pc = "idle"

\* C19: an exception of the job body is caught in the job wrapper: the
\* failure result, with job_status failed and the error message, becomes
\* the last run result, the scheduler stays as it was, running with its cron
\* job, and nothing else changes for the caller.
C19_JobExceptionBecomesResult ==
    [][\A r \in 1..MaxRuns :
          (InFlight(r) /\ runs'[r].pc = "raised") =>
              /\ last_run_result'.run = r
              /\ last_run_result'.job_status = "failed"
              /\ last_run_result'.error # ""
              /\ is_running' = is_running
              /\ \A q \in 1..MaxRuns : q # r => runs'[q] = runs[q]
      ]_vars

\* C19 witness: the body of a cron job raised, its failure result is the
\* last run result, the scheduler is running, and the cron trigger has
\* started the next batch.
C19_Witness ==
    \E r1 \in 1..MaxRuns, r2 \in 1..MaxRuns :
        /\ r1 < r2
        /\ runs[r1].kind = "cron" /\ runs[r1].pc = "raised"
        /\ last_run_result = [run |-> r1, job_status |-> "failed", error |-> "str(e)"]
        /\ is_running
        /\ runs[r2].kind = "cron" /\ InFlight(r2)

\* C20: stop() returns only when no batch is in flight: when it returns, no
\* batch started by the cron trigger or by run_now has a subscriber between
\* its selection and the writing of its outcome.
C20_StopWaitsForBatch ==
    [][stop =>
          \A r \in 1..MaxRuns :
              runs[r].kind \in {"cron", "run_now"} =>
                  runs'[r].pc \notin {"fetch", "generate", "deliver", "record"}
      ]_vars

\* C21: in every reachable state no two subscriber identities have the same
\* address, active or not.
C21_AddressUnique ==
    \A i \in 1..Len(users), j \in 1..Len(users) :
        users[i].email = users[j].email => i = j

\* C21 witness: three identities exist, one of them inactive, and a
\* subscription has been turned down.
C21_Witness ==
    /\ Len(users) = 3
    /\ \E i \in 1..Len(users) : ~users[i].is_active
    /\ "show_subscription_form" \in refused

\* C22: subscribing an address that exists and is active fails and leaves
\* the subscribers as they are: identity, preferences and active flag.
C22_DuplicateSubscribeFails ==
    [][\A e \in FormEmailInputs, l \in FormLanguageInputs, d \in FormDifficultyInputs :
          ( /\ get_user_by_email(e) # None
            /\ users[get_user_by_email(e)].is_active
            /\ show_subscription_form(e, l, d) )
          => /\ ~add_user_result(users, e, l, d)
             /\ users' = users
             /\ "show_subscription_form" \in refused'
      ]_vars

\* C22 witness: a subscription has been turned down, and the only cause the
\* form leaves is an address that is subscribed; the subscriber is active
\* and has preferences other than the ones a later form could have offered.
C22_Witness ==
    /\ "show_subscription_form" \in refused
    /\ \E i \in 1..Len(users) :
          /\ users[i].is_active
          /\ users[i].preferred_language = "java"
          /\ users[i].preferred_difficulty = "hard"

\* C23: subscribers are never removed: every step keeps every identity with
\* its address, and unsubscribing only sets the active flag of the address
\* to false and leaves the delivery records as they are.
C23_SoftDeleteOnly ==
    [][ /\ Len(users') >= Len(users)
        /\ \A i \in 1..Len(users) : users'[i].email = users[i].email
        /\ \A e \in EmailInputs :
              remove_user(e) =>
                 /\ sent_problems' = sent_problems
                 /\ \A i \in 1..Len(users) :
                       users'[i] = IF users[i].email = e
                                   THEN [users[i] EXCEPT !.is_active = FALSE]
                                   ELSE users[i]
      ]_vars

\* C23 witness: a subscriber who has a delivery record is inactive.
C23_Witness ==
    \E i \in 1..Len(users) :
        /\ ~users[i].is_active
        /\ \E row \in BagToSet(sent_problems) : row.user_id = i

\* C24: the health report has four booleans, each the answer of its own
\* probe and false when that probe raised, whatever the other probes did,
\* and overall is the conjunction of the four.
C24_HealthChecksIndependent ==
    [][\A checks \in HealthInputs :
          ShowSystemStatsWith(checks) =>
              /\ DOMAIN health'[1] = {"database", "groq_api", "email", "fetch_agent", "overall"}
              /\ health'[1].database = (checks.database = "list")
              /\ health'[1].groq_api = (checks.groq_api = "true")
              /\ health'[1].email = (checks.email = "true")
              /\ health'[1].fetch_agent = (checks.fetch_agent = "some")
              /\ health'[1].overall = ( /\ health'[1].database /\ health'[1].groq_api
                                        /\ health'[1].email /\ health'[1].fetch_agent )
      ]_vars

\* C24 witness: a report in which one probe is false, the three others,
\* the ones after it included, are true, and overall is false.
C24_Witness ==
    /\ health # << >>
    /\ health[1] = [database |-> TRUE, groq_api |-> FALSE, email |-> TRUE,
                    fetch_agent |-> TRUE, overall |-> FALSE]

\* C25: every item for which generation or delivery is attempted, and every
\* item named in a delivery record or in a mail, is a row of the problems
\* table: an item the fetch agent gave is stored, and has its id, before
\* generation starts.
C25_ItemsExistInStore ==
    /\ \A r \in 1..MaxRuns :
          runs[r].pc \in {"generate", "deliver", "record"} =>
              runs[r].problem \in 1..Len(problems)
    /\ \A row \in BagToSet(sent_problems) : row.problem_id \in 1..Len(problems)
    /\ \A m \in outbox : m.problem_id \in 1..Len(problems)

\* C25 witness: the store was empty, the fetch agent gave an item, it is the
\* one row of the problems table, and its delivery has been recorded.
C25_Witness ==
    /\ Len(problems) = 1
    /\ \E row \in BagToSet(sent_problems) : row.problem_id = 1

\* The pipeline of the batch ended for its current subscriber in this step.
PipelineEnded(r) == Len(runs'[r].log) = Len(runs[r].log) + 1

SolvedResponses == {response \in ResponseInputs : generate_solution(response) # << >>}

\* C27: the enrichment never makes a subscriber fail. Whatever the humor
\* helpers do, a solution that was generated goes on to the delivery with
\* the counts and the ledger as they were; when a helper raises or the
\* solution has no code, the solution handed on is the one generated; and
\* the record step writes the status, and counts the subscriber, by what
\* the delivery returned alone.
C27_EnrichmentNeverFails ==
    [][ /\ \A r \in 1..MaxRuns :
              runs[r].pc = "generate" =>
                  \A response \in SolvedResponses, humor \in HumorInputs :
                      GenerateSolutionHumor(r, response, humor)
                      => /\ runs'[r].pc = "deliver"
                         /\ runs'[r].emails_sent = runs[r].emails_sent
                         /\ runs'[r].emails_failed = runs[r].emails_failed
                         /\ runs'[r].log = runs[r].log
                         /\ sent_problems' = sent_problems
                         /\ ( humor.raises \/ generate_solution(response)[1].solution_code = << >> )
                                => runs'[r].solution = generate_solution(response)
        /\ \A r \in 1..MaxRuns :
              (runs[r].pc = "record" /\ PipelineEnded(r))
              => /\ \A row \in PairRows(sent_problems', CurrentUser(r).id, runs[r].problem) :
                        row.email_status = IF runs[r].email_sent THEN "sent" ELSE "failed"
                 /\ runs'[r].emails_sent =
                        runs[r].emails_sent + (IF runs[r].email_sent THEN 1 ELSE 0)
                 /\ runs'[r].emails_failed =
                        runs[r].emails_failed + (IF runs[r].email_sent THEN 0 ELSE 1)
      ]_vars

\* C27 witness: a solution with code went through the enrichment, a helper
\* raised, and the solution is at the delivery without comments.
C27_Witness ==
    \E r \in 1..MaxRuns :
        /\ runs[r].pc = "deliver"
        /\ runs[r].solution # << >>
        /\ runs[r].solution[1].solution_code # << >>
        /\ runs[r].solution[1].humor_comments = << >>

\* scheduler.get_jobs(): the ids of the jobs that are scheduled. The daily
\* job is added by start and stays until the scheduler is shut down.
get_jobs == {jobs[k].id : k \in 1..Len(jobs)}

\* DailyScheduler.is_job_running: False when the scheduler is not running,
\* else whether the daily job is among the scheduled jobs.
is_job_running ==
    IF ~is_running THEN FALSE
    ELSE IF job_id \in get_jobs
         THEN \E running_job \in get_jobs : running_job = job_id
         ELSE FALSE

\* DailyScheduler.wait_for_completion, its returned value: the loop ends
\* when is_job_running is false or at the timeout, then it returns
\* not is_job_running().
wait_for_completion == ~is_job_running

\* C28: is_job_running() is true only while a batch is executing, and
\* wait_for_completion() returns true when no batch is executing.
C28_JobRunningOnlyWhileExecuting ==
    /\ is_job_running => ~NoBatchInFlight
    /\ NoBatchInFlight => wait_for_completion

\* process_daily_emails has returned its results.
Returned(r) == runs[r].pc = "done"

\* C29: when process_daily_emails has returned, emails_sent + emails_failed
\* is total_users, the number of active subscribers it listed, and end_time
\* is set; also with no active subscriber and with every subscriber failed.
C29_CountsAddUp ==
    \A r \in 1..MaxRuns :
        Returned(r) =>
            /\ runs[r].total_users = Len(runs[r].active_users)
            /\ runs[r].emails_sent + runs[r].emails_failed = runs[r].total_users
            /\ runs[r].end_time # << >>

\* C29 witness: one batch has returned that found no active subscriber, and
\* one has returned in which every subscriber failed.
C29_Witness ==
    \E r1, r2 \in 1..MaxRuns :
        /\ Returned(r1) /\ runs[r1].total_users = 0
        /\ Returned(r2) /\ runs[r2].total_users > 0
        /\ runs[r2].emails_failed = runs[r2].total_users

\* C30: when batches never overlap, the record step of a batch finds no
\* record for its pair, and no step changes or removes a record that is
\* in the ledger: a status, once written, stays.
C30_NoOverwriteWhenSerial ==
    [][ /\ \A r \in 1..MaxRuns :
              (runs[r].pc = "record" /\ PipelineEnded(r)) =>
                  PairRows(sent_problems, CurrentUser(r).id, runs[r].problem) = {}
        /\ \A row \in BagToSet(sent_problems) :
              CopiesIn(row, sent_problems') = CopiesIn(row, sent_problems)
      ]_vars

\* C30 witness: an earlier batch has written a record for a subscriber, and
\* a later batch is about to record another item for the same subscriber.
C30_Witness ==
    \E r1, r2 \in 1..MaxRuns :
        /\ Returned(r1)
        /\ runs[r2].pc = "record"
        /\ \E entry \in 1..Len(runs[r1].log) :
              /\ runs[r1].log[entry].user_id = CurrentUser(r2).id
              /\ PairRows(sent_problems, CurrentUser(r2).id, runs[r1].log[entry].problem) # {}
        /\ PairRows(sent_problems, CurrentUser(r2).id, runs[r2].problem) = {}

\* C31: the problems table never holds two rows with the same title.
C31_TitlesUnique ==
    \A i, j \in 1..Len(problems) :
        i # j => problems[i].title # problems[j].title

\* The ids of the subscribers a batch listed.
Listed(f) == {f.active_users[k].id : k \in 1..Len(f.active_users)}

\* C32: a batch lists, when it starts, the subscribers that are active then
\* and keeps that list to its end; every mail it sends and every record it
\* writes is for a subscriber of the list, and when it returns it has
\* processed every subscriber of the list once, whoever unsubscribed
\* meanwhile.
C32_BatchProcessesListedSubscribers ==
    [][ \A r \in 1..MaxRuns :
          /\ (runs[r].pc = "idle" /\ runs'[r].pc # "idle") =>
                 Listed(runs'[r]) = {i \in 1..Len(users) : users[i].is_active}
          /\ runs[r].pc # "idle" => runs'[r].active_users = runs[r].active_users
          /\ \A m \in outbox' \ outbox : m.run = r => m.user_id \in Listed(runs[r])
          /\ (runs[r].pc = "record" /\ PipelineEnded(r)) =>
                 \A row \in BagToSet(sent_problems') :
                     CopiesIn(row, sent_problems') # CopiesIn(row, sent_problems)
                         => row.user_id \in Listed(runs[r])
          /\ (~Returned(r) /\ runs'[r].pc = "done") =>
                 /\ Len(runs'[r].log) = Len(runs'[r].active_users)
                 /\ \A k \in 1..Len(runs'[r].log) :
                       runs'[r].log[k].user_id = runs'[r].active_users[k].id
      ]_vars

\* C32 witness: a batch has returned; one subscriber was inactive when it
\* started and has no record, the other unsubscribed while it was running
\* and has the record of the delivery the batch made.
C32_Witness ==
    \E r \in 1..MaxRuns, u, v \in 1..Len(users) :
        /\ Returned(r)
        /\ ~users[u].is_active /\ ~users[v].is_active
        /\ u \notin Listed(runs[r])
        /\ \A row \in BagToSet(sent_problems) : row.user_id # u
        /\ v \in Listed(runs[r])
        /\ \E row \in BagToSet(sent_problems) : row.user_id = v /\ row.email_status = "sent"

\* C33: start on a running scheduler and stop on a scheduler that is not
\* running change nothing, and the job store never holds two jobs with the
\* id of the daily job.
C33_StartStopIdempotent ==
    [][ /\ (is_running /\ start) => UNCHANGED vars
        /\ (~is_running /\ stop) => UNCHANGED vars
        /\ Cardinality(JobsWithId(jobs', job_id)) <= 1
      ]_vars

\* C33 witness: the scheduler was started and is running, a batch its cron
\* trigger fired has returned, and the daily job is registered once.
C33_Witness ==
    /\ is_running
    /\ Cardinality(JobsWithId(jobs, job_id)) = 1
    /\ \E r \in 1..MaxRuns : Returned(r) /\ runs[r].kind = "cron"

\* C34: a reschedule that returns False leaves the daily job registered
\* with the schedule it had.
C34_FailedRescheduleKeepsJob ==
    [][ \A hour \in HourInputs, minute \in MinuteInputs, timezone \in TimezoneInputs :
          (reschedule(hour, minute, timezone) /\ ~reschedule_result(hour, minute, timezone))
              => jobs' = jobs
      ]_vars

\* DailyScheduler.get_last_run_result: the field as it is; NoResult is None.
get_last_run_result == last_run_result

\* The job execution of the batch has ended: _run_daily_job has returned.
JobEnded(f) == f.kind \in {"cron", "run_now"} /\ f.pc \in {"done", "raised"}

\* C35: get_last_run_result gives None as long as no job execution has
\* ended; the step that ends a job execution, started by the cron trigger
\* or by run_now, makes its result (completed, or failed when the job
\* raised) the one returned; and no other step changes what is returned.
C35_LastRunResultIsLatest ==
    [][ /\ (\A r \in 1..MaxRuns : ~JobEnded(runs[r])) => get_last_run_result = NoResult
        /\ \A r \in 1..MaxRuns :
              (~JobEnded(runs[r]) /\ JobEnded(runs'[r])) =>
                  /\ get_last_run_result'.run = r
                  /\ get_last_run_result'.job_status =
                        IF runs'[r].pc = "done" THEN "completed" ELSE "failed"
        /\ (\A r \in 1..MaxRuns : JobEnded(runs'[r]) = JobEnded(runs[r]))
              => get_last_run_result' = get_last_run_result
      ]_vars

\* C35 witness: a job the cron trigger fired has completed, a later one
\* started by run_now has failed, and the failed one is what is returned.
C35_Witness ==
    \E r1, r2 \in 1..MaxRuns :
        /\ runs[r1].kind = "cron" /\ runs[r1].pc = "done"
        /\ runs[r2].kind = "run_now" /\ runs[r2].pc = "raised"
        /\ r1 < r2
        /\ get_last_run_result.run = r2
        /\ get_last_run_result.job_status = "failed"

\* The address is subscribed and active.
IsActive(tbl, email) == \E i \in 1..Len(tbl) : tbl[i].email = email /\ tbl[i].is_active

\* C36: remove_user of an unknown address returns False and changes
\* nothing; of an inactive address it returns True and changes nothing;
\* and when it returns True the address is not active afterwards.
C36_RemoveUserIdempotent ==
    [][ \A e \in EmailInputs :
          remove_user(e) =>
              /\ get_user_by_email(e) = None => (~remove_user_result(e) /\ UNCHANGED vars)
              /\ (get_user_by_email(e) # None /\ ~IsActive(users, e))
                     => (remove_user_result(e) /\ UNCHANGED vars)
              /\ remove_user_result(e) => ~IsActive(users', e)
      ]_vars

\* C36 witness: two addresses have been unsubscribed and a third is still
\* active.
C36_Witness ==
    /\ get_user_by_email("a@x.io") # None /\ ~IsActive(users, "a@x.io")
    /\ get_user_by_email("b@x.io") # None /\ ~IsActive(users, "b@x.io")
    /\ IsActive(users, "c@x.io")

\* C37: update_user_preferences adds no row and removes none, leaves the
\* address and the active flag of every row and the whole of every other
\* row as they are, leaves a preference that is not given as it is, and
\* changes nothing when it returns False.
C37_UpdateChangesOnlyPreferences ==
    [][ \A e \in EmailInputs, l \in PreferenceLanguageInputs,
           d \in PreferenceDifficultyInputs :
          update_user_preferences(e, l, d) =>
              /\ Len(users') = Len(users)
              /\ \A i \in 1..Len(users) :
                    /\ users'[i].email = users[i].email
                    /\ users'[i].is_active = users[i].is_active
                    /\ users[i].email # e => users'[i] = users[i]
                    /\ l = "" => users'[i].preferred_language = users[i].preferred_language
                    /\ d = "" => users'[i].preferred_difficulty = users[i].preferred_difficulty
              /\ ~update_user_preferences_result(e, l, d) => users' = users
      ]_vars

\* C37 witness: an unsubscribed address has preferences no form offers, so
\* they were set by update_user_preferences, and it is still inactive.
C37_Witness ==
    \E i \in 1..Len(users) :
        /\ ~users[i].is_active
        /\ users[i].preferred_language = "go"
        /\ users[i].preferred_difficulty = "medium"

\* C38: the statistics get_user_stats returns count the sent records only:
\* total_sent is the sum of the by_difficulty counts.
C38_StatsCountSentOnly ==
    stats.pc = "done" => stats.total_sent = BagCardinality(stats.by_difficulty)

\* The pipelines of a batch that ended with the mail accepted and whose
\* pair has a record with status sent in the ledger sp.
SentRecorded(f, sp) ==
    {k \in 1..Len(f.log) :
        /\ f.log[k].outcome = "sent"
        /\ \E row \in BagToSet(sp) :
              /\ row.user_id = f.log[k].user_id
              /\ row.problem_id = f.log[k].problem
              /\ row.email_status = "sent"}

\* C39: when a batch returns, emails_sent is the number of its subscribers
\* whose mail was accepted and whose delivered item has a record with
\* status sent in the ledger.
C39_CountedOnlyIfRecorded ==
    [][ \A r \in 1..MaxRuns :
          (~Returned(r) /\ runs'[r].pc = "done") =>
              runs'[r].emails_sent = Cardinality(SentRecorded(runs'[r], sent_problems'))
      ]_vars

====
